---- MODULE Spec2Model ----
\* A model of file_organizer: FileOrganizer (calculate_actions, run,
\* choose_actions, execute_actions, cleanup_actions), its interactive
\* variant InteractiveFileOrganizer, and the Candidate / Action data model.
\*
\* Python strings are sequences of one-character strings, so that the
\* substring tests, re.findall(r'\w+'), str.lower, os.path.dirname and the
\* lexicographic comparisons of the code are computed, not assumed.
EXTENDS Integers, Sequences, FiniteSets, TLC

\* ------------------------------------------------------------------ strings

Upper == <<"A","B","C","D","E","F","G","H","I","J","K","L","M",
           "N","O","P","Q","R","S","T","U","V","W","X","Y","Z">>
Lower == <<"a","b","c","d","e","f","g","h","i","j","k","l","m",
           "n","o","p","q","r","s","t","u","v","w","x","y","z">>
Digits == <<"0","1","2","3","4","5","6","7","8","9">>

Range(s) == { s[i] : i \in DOMAIN s }

IndexOf(s, c) == CHOOSE i \in DOMAIN s : s[i] = c

\* ord(c): the code point Python compares strings by (ASCII subset).
Ord(c) ==
    IF c \in Range(Upper) THEN 64 + IndexOf(Upper, c)
    ELSE IF c \in Range(Lower) THEN 96 + IndexOf(Lower, c)
    ELSE IF c \in Range(Digits) THEN 47 + IndexOf(Digits, c)
    ELSE CASE c = " " -> 32
           [] c = "-" -> 45
           [] c = "." -> 46
           [] c = "/" -> 47
           [] c = "_" -> 95

\* str.lower() on one character.
LowerCh(c) == IF c \in Range(Upper) THEN Lower[IndexOf(Upper, c)] ELSE c

\* str.lower()
LowerStr(s) == [i \in DOMAIN s |-> LowerCh(s[i])]

\* The regular expression class \w.
WordChars == Range(Upper) \cup Range(Lower) \cup Range(Digits) \cup {"_"}

IsWordCh(c) == c \in WordChars

\* Python's str < str: lexicographic by code point, a proper prefix is smaller.
RECURSIVE StrLess(_, _)
StrLess(a, b) ==
    IF b = <<>> THEN FALSE
    ELSE IF a = <<>> THEN TRUE
    ELSE IF Ord(Head(a)) # Ord(Head(b)) THEN Ord(Head(a)) < Ord(Head(b))
    ELSE StrLess(Tail(a), Tail(b))

StrLeq(a, b) == a = b \/ StrLess(a, b)

\* Python's `sub in s` for strings.
Contains(s, sub) ==
    \E i \in 0..(Len(s) - Len(sub)) : SubSeq(s, i + 1, i + Len(sub)) = sub

StartsWith(s, p) == Len(p) <= Len(s) /\ SubSeq(s, 1, Len(p)) = p

\* ------------------------------------------------------------------ os.path

Sep == "/"

\* Positions of the separator in p.
SepPositions(p) == { i \in DOMAIN p : p[i] = Sep }

LastSep(p) == IF SepPositions(p) = {} THEN 0
              ELSE CHOOSE i \in SepPositions(p) : \A j \in SepPositions(p) : j <= i

\* posixpath.dirname: everything before the last separator, trailing
\* separators of the head stripped unless the head is only separators.
RECURSIVE RStripSep(_)
RStripSep(p) == IF p # <<>> /\ p[Len(p)] = Sep THEN RStripSep(SubSeq(p, 1, Len(p) - 1)) ELSE p

Dirname(p) ==
    LET head == SubSeq(p, 1, LastSep(p))
    IN  IF head # <<>> /\ Range(head) # {Sep} THEN RStripSep(head) ELSE head

\* posixpath.basename
Basename(p) == SubSeq(p, LastSep(p) + 1, Len(p))

\* posixpath.join(a, b)
Join(a, b) ==
    IF b # <<>> /\ b[1] = Sep THEN b
    ELSE IF a = <<>> \/ a[Len(a)] = Sep THEN a \o b
    ELSE a \o <<Sep>> \o b

\* os.path.relpath(filepath, source_root) for a file that os.walk(source_root)
\* yielded: the path below the root.
Relpath(filepath, root) == SubSeq(filepath, Len(RStripSep(root)) + 2, Len(filepath))

\* p lies below directory d (at any depth).
Below(p, d) == StartsWith(p, d \o <<Sep>>) /\ Len(p) > Len(d) + 1

\* ------------------------------------------------------------------ builtins

\* The permutations of 1..n.
Perm(n) == { p \in [1..n -> 1..n] : \A i, j \in 1..n : i # j => p[i] # p[j] }

\* sorted(seq) under a strict order of its items, given as less[i][j] for the
\* items at i and j: Python's sort is stable, so the result is the one
\* arrangement that is ascending and keeps equal items in their original order.
StableSort(seq, less) ==
    LET n == Len(seq)
        p == CHOOSE q \in Perm(n) :
                 \A i, j \in 1..n : i < j =>
                     /\ ~less[q[j]][q[i]]
                     /\ (~less[q[i]][q[j]] => q[i] < q[j])
    IN  [i \in 1..n |-> seq[p[i]]]

\* itertools.groupby over a sequence of <<key, item>> pairs: one group per
\* maximal run of consecutive equal keys.
RECURSIVE GroupRuns(_)
GroupRuns(pairs) ==
    IF pairs = <<>> THEN <<>>
    ELSE LET rest == GroupRuns(Tail(pairs))
             k == Head(pairs)[1]
             x == Head(pairs)[2]
         IN  IF rest # <<>> /\ rest[1].key = k
             THEN <<[key |-> k, group |-> <<x>> \o rest[1].group]>> \o Tail(rest)
             ELSE <<[key |-> k, group |-> <<x>>]>> \o rest

\* ------------------------------------------------------------------ Candidate

\* Candidate.__init__: the fields of one candidate object.
Candidate(root, name, score, length_threshold) ==
    [root |-> root, name |-> name, score |-> score,
     length_threshold |-> length_threshold]

\* The score of a candidate that has not been scored (Python's None).
None == "None"

\* Candidate.split_name: re.findall(r'\w+', name), the maximal runs of word
\* characters, in order.
RECURSIVE SplitFrom(_, _, _)
SplitFrom(s, i, cur) ==
    LET flush == IF cur = <<>> THEN <<>> ELSE <<cur>>
    IN  IF i > Len(s) THEN flush
        ELSE IF IsWordCh(s[i]) THEN SplitFrom(s, i + 1, Append(cur, s[i]))
        ELSE flush \o SplitFrom(s, i + 1, <<>>)

split_name(c) == SplitFrom(c.name, 1, <<>>)

\* Candidate.consider_element
consider_element(c, element) == Len(element) >= c.length_threshold

\* Candidate.elements
elements(c) == { e \in Range(split_name(c)) : consider_element(c, e) }

\* Candidate.ratio raises ZeroDivisionError when there is no element.
RatioRaises(c) == elements(c) = {}

\* The sorting key with the score not negated, (score, -ratio, name): the
\* lowest score first.
KeyLess_ScoreAscending(a, b) ==
    LET na == Cardinality(elements(a))
        nb == Cardinality(elements(b))
    IN  \/ a.score < b.score
        \/ /\ a.score = b.score
           /\ a.score * nb > b.score * na
        \/ /\ a.score = b.score
           /\ a.score * nb = b.score * na
           /\ StrLess(a.name, b.name)

\* Candidate.score(), the sorting key (-score, -ratio, name), as the strict
\* order of the key tuples; ratio = score / len(elements) is compared as a
\* fraction.
KeyLess(a, b) ==
    LET na == Cardinality(elements(a))
        nb == Cardinality(elements(b))
    IN  \/ a.score > b.score
        \/ /\ a.score = b.score
           /\ a.score * nb > b.score * na
        \/ /\ a.score = b.score
           /\ a.score * nb = b.score * na
           /\ StrLess(a.name, b.name)

\* Candidate.__key / __lt__: (root, name, score) compared as a tuple.
CandLess(a, b) ==
    \/ StrLess(a.root, b.root)
    \/ a.root = b.root /\ StrLess(a.name, b.name)
    \/ a.root = b.root /\ a.name = b.name /\ a.score < b.score

\* Candidate.__eq__: equality of the (root, name, score) keys.
CandEq(a, b) == a.root = b.root /\ a.name = b.name /\ a.score = b.score

\* Candidate.__key
CandKey(c) == <<c.root, c.name, c.score>>

\* cached_property: property(lru_cache(maxsize=1)(function)).
maxsize == 1

\* Equality of two __key tuples, as lru_cache compares its arguments: the
\* score of one may be None where the other's is a number.
SameKey(k1, k2) ==
    /\ k1[1] = k2[1]
    /\ k1[2] = k2[2]
    /\ ToString(k1[3]) = ToString(k2[3])

\* lru_cache: the entries of the cache ch made for an argument equal to c. The
\* argument is the candidate itself, hashed and compared by __hash__ and
\* __eq__, that is by (root, name, score).
Hits(ch, c) == { i \in DOMAIN ch : SameKey(ch[i].key, CandKey(c)) }

\* lru_cache: the cache ch with a new entry as the most recent one, the least
\* recent dropped when more than maxsize are held.
Store(ch, entry) ==
    LET all == Append(ch, entry)
    IN  IF Len(all) > maxsize THEN SubSeq(all, Len(all) - maxsize + 1, Len(all))
        ELSE all

\* Reading c.elements with the cache ch: the cached value of an equal
\* argument when there is one, the value the function computes for c otherwise.
ElementsRead(ch, c) ==
    IF Hits(ch, c) # {} THEN ch[CHOOSE i \in Hits(ch, c) : TRUE].value
    ELSE elements(c)

\* Reading c.elements with the cache ch, the cache afterwards: a hit makes
\* its entry the most recent one, a miss stores the value computed.
CacheAfter(ch, c) ==
    IF Hits(ch, c) # {}
    THEN LET i == CHOOSE j \in Hits(ch, c) : TRUE
         IN  Append(SubSeq(ch, 1, i - 1) \o SubSeq(ch, i + 1, Len(ch)), ch[i])
    ELSE Store(ch, [key |-> CandKey(c), value |-> elements(c)])

\* The cache after each of the reads of the elements of the candidates of the
\* list cs, the last of them.
FoldReads(ch, cs) ==
    LET after[i \in 0..Len(cs)] ==
            IF i = 0 THEN ch
            ELSE CHOOSE new \in { CacheAfter(prev, cs[i]) : prev \in {after[i - 1]} } : TRUE
    IN  after[Len(cs)]

\* The cache after reading the elements of the candidates of the list cs, one
\* after the other.
CacheAfterAll(ch, cs) ==
    CHOOSE new \in { FoldReads(c0, s0) : c0 \in {ch}, s0 \in {cs} } : TRUE

\* The cache after n passes over the list cs.
CacheAfterPasses(ch, cs, n) ==
    LET after[i \in 0..n] ==
            IF i = 0 THEN ch
            ELSE CHOOSE new \in { CacheAfterAll(prev, cs) : prev \in {after[i - 1]} } : TRUE
    IN  after[n]

\* ------------------------------------------------------------------ Action

\* Action.__init__
Action(source, source_root) ==
    [source |-> source, root |-> source_root, candidates |-> {}]

\* Action.__iter__ without the sort: the candidates in the order of the set.
Rankings_Unsorted(cands) ==
    LET n == Cardinality(cands)
    IN  { r \in [1..n -> cands] : \A i, j \in 1..n : i # j => r[i] # r[j] }

\* Action.__iter__: sorted(self.candidates, key=Candidate.score). The set is
\* iterated in hash order, so candidates with equal keys may come out in
\* either order: the set of the arrangements the iteration can yield.
Rankings(cands) ==
    LET n == Cardinality(cands)
    IN  { r \in [1..n -> cands] :
            /\ \A i, j \in 1..n : i # j => r[i] # r[j]
            /\ \A i, j \in 1..n : i < j => ~KeyLess(r[j], r[i]) }

\* Iterating an action evaluates ratio for every candidate of the set.
IterRaises(cands) == \E c \in cands : RatioRaises(c)

\* ------------------------------------------------------------------ inputs

\* The paths of the modelled file systems.
SRoot == <<"/","s">>
RRoot == <<"/","r">>
TRoot == <<"/","t">>
URoot == <<"/","u">>

\* Source files a file system may hold: at the top of a source root, one and
\* two directories down, and below the same relative directory of two roots.
FilePool == { SRoot \o <<"/","a","b","c">>,
              SRoot \o <<"/","d","/","a","b","c","D","E","F">>,
              SRoot \o <<"/","d","/","e","/","d","e","f">>,
              RRoot \o <<"/","d","/","e","/","a","b","c">> }

\* Destination directories a file system may hold below TRoot.
DirPool == { TRoot \o <<"/","a","b","c">>,
             TRoot \o <<"/","D","e","f">>,
             TRoot \o <<"/","a","b","c"," ","D","e","f">> }

\* The directory below URoot: the same name as one below TRoot.
UDirs == { URoot \o <<"/","a","b","c">> }

\* The rules dictionaries an organizer may be constructed with.
RulePool == { {},
              { [pattern |-> <<"a","b">>, target |-> TRoot \o <<"/","D","e","f">>] },
              { [pattern |-> <<"a","b">>, target |-> TRoot \o <<"/","z","z">>] } }

\* The destination roots calculate_actions may be called with.
TargetRoots == { TRoot, URoot }

\* The lines the user may type at a prompt.
Inputs == { "y", "Y", "s", "k", "n", "", "a", "q", "yes" }

\* How many source files a modelled file system holds at most.
MaxFiles == 2

\* str.lower() of a typed line.
LowerLine(line) == CASE line = "Y" -> "y" [] OTHER -> line

\* A directory and all the directories above it.
RECURSIVE Ancestors(_)
Ancestors(d) == IF d = <<>> \/ Range(d) = {Sep} THEN {}
                ELSE {d} \cup Ancestors(Dirname(d))

VARIABLES
    interactive,      \* the object is an InteractiveFileOrganizer
    source_roots,     \* self.source_roots
    rules,            \* self.rules
    length_threshold, \* self.length_threshold
    actions,          \* self.actions: key -> Action
    action_keys,      \* the insertion order of the keys of self.actions
    queue,            \* self.queue: a list of (action key, candidate)
    action_for_all,   \* self.action_for_all
    files, dirs,      \* the file system: the regular files and the directories
    files0, dirs0,    \* the file system as it was at construction
    pc,               \* where the caller of the object stands
    passes,           \* the target roots calculate_actions was called with
    todo,             \* choose_actions: the actions not yet considered
    cur,              \* consider_action: the key of the action considered
    offered,          \* consider_action: the candidates not yet rejected
    line,             \* the line the last step read with input(), if any
    choice,           \* the local variable choice of the last prompt loop
    pending,          \* execute_actions: the groups not yet moved
    moves,            \* the move_single calls made: source, target, outcome
    exc,              \* the exception that ended the program, None if none did
    cache,            \* the lru_cache (maxsize=1) under Candidate.elements
    log               \* the reads of Candidate.elements made: candidate, value

vars == << interactive, source_roots, rules, length_threshold, actions,
           action_keys, queue, action_for_all, files, dirs, files0, dirs0,
           pc, passes, todo, cur, offered, line, choice, pending, moves, exc,
           cache, log >>

\* The step read nothing from the terminal.
NoInput == "<none>"

\* The sources argument left out: self.source_roots is None.
NoSources == <<None>>

\* The cache under Candidate.elements holds no entry.
NoEntry == <<>>

\* ------------------------------------------------------------------ file system

\* A set of strings as the ascending list.
SortedSeq(S) ==
    LET n == Cardinality(S)
    IN  CHOOSE r \in [1..n -> S] : \A i, j \in 1..n : i < j => StrLess(r[i], r[j])

\* FileOrganizer.get_targets: the directories directly below target_root.
get_targets(target_root, ds) ==
    { Basename(d) : d \in { e \in ds : Dirname(e) = target_root } }

\* FileOrganizer.get_files: os.walk, every regular file below source_root.
\* The order of the walk is the file system's; it is taken ascending.
get_files(source_root, fs) == SortedSeq({ f \in fs : Below(f, source_root) })

\* ------------------------------------------------------------------ calculate_actions

\* The score of a candidate forced by a rule.
RuleScore == 9999

\* set.add of each candidate of new: a candidate equal (by __eq__) to one
\* already in the set is not added.
AddCandidates(cands, new) ==
    cands \cup { c \in new : ~\E d \in cands : CandEq(d, c) }

\* calculate_actions, the loop over self.rules: the candidates forced for relpath.
RuleCandidates(relpath) ==
    { Candidate(Dirname(r.target), Basename(r.target), RuleScore, length_threshold) :
        r \in { q \in rules : Contains(relpath, q.pattern) } }

\* The inner loop without the two lower(): the elements found in relpath as
\* they are written.
Score_CaseSensitive(candidate, relpath) ==
    Cardinality({ word \in elements(candidate) : Contains(relpath, word) })

\* calculate_actions, the inner loop: the number of the candidate's elements
\* found in relpath, both lower-cased.
Score(candidate, relpath) ==
    Cardinality({ word \in elements(candidate) :
                    Contains(LowerStr(relpath), LowerStr(word)) })

\* calculate_actions, the loop over candidates: a copy with its score of each
\* target directory that scores above 0.
ScoredCandidates(relpath, target_root) ==
    LET candidates == { Candidate(target_root, t, None, length_threshold) :
                          t \in get_targets(target_root, dirs) }
    IN  { Candidate(c.root, c.name, Score(c, relpath), c.length_threshold) :
            c \in { d \in candidates : Score(d, relpath) > 0 } }

\* The body of the loop without the test of action.candidates: the Action is
\* stored whatever it holds.
ProcessFile_StoreEmpty(st, source_root, filepath, target_root) ==
    LET relpath == Relpath(filepath, source_root)
        key == filepath
        old == IF key \in DOMAIN st.actions THEN st.actions[key]
               ELSE Action(relpath, source_root)
        action == [old EXCEPT !.candidates =
                       AddCandidates(AddCandidates(@, RuleCandidates(relpath)),
                                     ScoredCandidates(relpath, target_root))]
    IN  [actions |-> [k \in DOMAIN st.actions \cup {key} |->
                         IF k = key THEN action ELSE st.actions[k]],
         keys |-> IF key \in DOMAIN st.actions THEN st.keys
                  ELSE Append(st.keys, key)]

\* The body of the loop with a new Action for the file in every pass, stored
\* over the one of an earlier pass.
ProcessFile_Replace(st, source_root, filepath, target_root) ==
    LET relpath == Relpath(filepath, source_root)
        key == filepath
        action == [Action(relpath, source_root) EXCEPT !.candidates =
                       AddCandidates(AddCandidates(@, RuleCandidates(relpath)),
                                     ScoredCandidates(relpath, target_root))]
    IN  IF action.candidates = {} THEN st
        ELSE [actions |-> [k \in DOMAIN st.actions \cup {key} |->
                              IF k = key THEN action ELSE st.actions[k]],
              keys |-> IF key \in DOMAIN st.actions THEN st.keys
                       ELSE Append(st.keys, key)]

\* calculate_actions, the body of the loop over the files of one source
\* root, on st = [actions, keys].
ProcessFile(st, source_root, filepath, target_root) ==
    LET relpath == Relpath(filepath, source_root)
        key == filepath
        old == IF key \in DOMAIN st.actions THEN st.actions[key]
               ELSE Action(relpath, source_root)
        action == [old EXCEPT !.candidates =
                       AddCandidates(AddCandidates(@, RuleCandidates(relpath)),
                                     ScoredCandidates(relpath, target_root))]
    IN  IF action.candidates = {} THEN st
        ELSE [actions |-> [k \in DOMAIN st.actions \cup {key} |->
                              IF k = key THEN action ELSE st.actions[k]],
              keys |-> IF key \in DOMAIN st.actions THEN st.keys
                       ELSE Append(st.keys, key)]

RECURSIVE ProcessFiles(_, _, _, _)
ProcessFiles(st, source_root, fileseq, target_root) ==
    IF fileseq = <<>> THEN st
    ELSE ProcessFiles(ProcessFile(st, source_root, Head(fileseq), target_root),
                      source_root, Tail(fileseq), target_root)

RECURSIVE ProcessRoots(_, _, _)
ProcessRoots(st, roots, target_root) ==
    IF roots = <<>> THEN st
    ELSE ProcessRoots(ProcessFiles(st, Head(roots), get_files(Head(roots), files),
                                   target_root),
                      Tail(roots), target_root)

\* calculate_actions without the test for None: the loop over source_roots
\* raises when it is handed None.
SourcesError_Unchecked(roots) ==
    IF roots = NoSources THEN "TypeError" ELSE None

\* calculate_actions, the test of source_roots after the default was taken:
\* the exception raised, None if none is.
SourcesError(roots) ==
    IF roots = NoSources THEN "FileOrganizerError" ELSE None

\* calculate_actions, the list candidates: one unscored Candidate for each
\* name get_targets yields. os.listdir gives the names in arbitrary order:
\* the set of the lists it can make.
Listings(target_root, ds) ==
    LET ts == get_targets(target_root, ds)
        n == Cardinality(ts)
    IN  { [i \in 1..n |-> Candidate(target_root, p[i], None, length_threshold)] :
            p \in { q \in [1..n -> ts] : \A i, j \in 1..n : i # j => q[i] # q[j] } }

\* calculate_actions, the two loops over the source roots and their files:
\* the number of turns of the inner one.
RECURSIVE FilesVisited(_)
FilesVisited(roots) ==
    IF roots = <<>> THEN 0
    ELSE Len(get_files(Head(roots), files)) + FilesVisited(Tail(roots))

\* FileOrganizer.calculate_actions(target_root), source_roots omitted. Every
\* file read candidate.elements of every candidate of the list, in its
\* order, through the cache; all the candidates of one organizer have its
\* length_threshold, so that a value found in the cache is the value computed.
calculate_actions(target_root) ==
    /\ pc = "new"
    /\ IF SourcesError(source_roots) # None
       THEN /\ exc' = SourcesError(source_roots)
            /\ pc' = "raised"
            /\ UNCHANGED << actions, action_keys, passes, cache >>
       ELSE /\ LET st == ProcessRoots([actions |-> actions, keys |-> action_keys],
                                      source_roots, target_root)
               IN  /\ actions' = st.actions
                   /\ action_keys' = st.keys
            /\ passes' = passes \cup {target_root}
            /\ \E candidates \in Listings(target_root, dirs) :
                 cache' = CacheAfterPasses(cache, candidates,
                                           FilesVisited(source_roots))
            /\ UNCHANGED << exc, pc >>
    /\ UNCHANGED log
    /\ UNCHANGED << interactive, source_roots, rules, length_threshold, queue,
                    action_for_all, files, dirs, files0, dirs0, todo, cur,
                    offered, line, choice, pending, moves >>

\* ------------------------------------------------------------------ run: choose_actions

\* No action is being considered.
NoKey == <<>>

\* os.path.join(action.root, action.source)
SourcePath(key) == Join(actions[key].root, actions[key].source)

\* choose_actions without the sort: the actions in the order of the dictionary.
SortedActions_Unsorted == action_keys

\* choose_actions: sorted(self.actions.values(), key=lambda x: x.source), as
\* the list of the keys of the actions.
SortedActions ==
    LET ks == action_keys
    IN  StableSort(ks, [i \in DOMAIN ks |-> [j \in DOMAIN ks |->
                          StrLess(actions[ks[i]].source, actions[ks[j]].source)]])

\* FileOrganizer.run, up to the loop of choose_actions; the interactive
\* choose_actions first resets self.action_for_all.
run ==
    /\ pc = "new"
    /\ pc' = "choose"
    /\ todo' = SortedActions
    /\ cur' = NoKey
    /\ offered' = <<>>
    /\ action_for_all' = None
    /\ UNCHANGED << exc, cache, log >>
    /\ UNCHANGED << interactive, source_roots, rules, length_threshold, actions,
                    action_keys, queue, files, dirs, files0, dirs0, passes,
                    line, choice, pending, moves >>

\* Action.__iter__, sorted(self.candidates, ...): the orders in which the set
\* of candidates may be iterated, which is the order of their hashes.
Iterations(cands) ==
    LET n == Cardinality(cands)
    IN  { it \in [1..n -> cands] : \A i, j \in 1..n : i # j => it[i] # it[j] }

\* The pairs of candidates of the sorted list r that have equal keys, the
\* earlier one first.
Ties(r) ==
    { <<r[p[1]], r[p[2]]>> :
        p \in { q \in (DOMAIN r) \X (DOMAIN r) :
                  q[1] < q[2] /\ ~KeyLess(r[q[1]], r[q[2]]) } }

\* sorted() is stable: candidates with equal keys come out in the order the
\* iteration it gave them.
Stable(ties, it) ==
    \A p \in ties : IndexOf(it, p[1]) < IndexOf(it, p[2])

\* sorted() computes the key of each candidate in the order of the iteration
\* and stops at the first that raises: the candidates whose ratio, and with it
\* elements, was read.
KeysComputed(it) ==
    IF \E i \in DOMAIN it : RatioRaises(it[i])
    THEN SubSeq(it, 1, CHOOSE i \in DOMAIN it :
                         /\ RatioRaises(it[i])
                         /\ \A j \in 1..(i - 1) : ~RatioRaises(it[j]))
    ELSE it

\* choose_actions / consider_action: take the next action and start the
\* iteration over its candidates; the sort reads the elements of the
\* candidates through the cache and raises when a ratio cannot be computed.
consider_action ==
    /\ pc = "choose"
    /\ offered = <<>>
    /\ todo # <<>>
    /\ LET action == actions[Head(todo)]
       IN  IF IterRaises(action.candidates)
           THEN /\ \E it \in Iterations(action.candidates) :
                     cache' = CacheAfterAll(cache, KeysComputed(it))
                /\ pc' = "raised"
                /\ exc' = "ZeroDivisionError"
                /\ UNCHANGED << todo, cur, offered >>
           ELSE /\ \E r \in Rankings(action.candidates) :
                     /\ offered' = r
                     /\ LET tied == Ties(r)
                        IN  \E it \in Iterations(action.candidates) :
                              /\ Stable(tied, it)
                              /\ cache' = CacheAfterAll(cache, KeysComputed(it))
                /\ cur' = Head(todo)
                /\ todo' = Tail(todo)
                /\ pc' = pc
                /\ exc' = exc
    /\ line' = NoInput
    /\ UNCHANGED log
    /\ UNCHANGED << interactive, source_roots, rules, length_threshold, actions,
                    action_keys, queue, action_for_all, files, dirs, files0,
                    dirs0, passes, choice, pending, moves >>

\* enqueue_action without its return True: consider_action goes on to the
\* next candidate after queueing this one.
enqueue_action_ReturnsNone ==
    /\ pc = "choose"
    /\ ~interactive
    /\ offered # <<>>
    /\ queue' = Append(queue, [action |-> cur, candidate |-> Head(offered)])
    /\ offered' = Tail(offered)
    /\ line' = NoInput
    /\ UNCHANGED << exc, cache, log >>
    /\ UNCHANGED << interactive, source_roots, rules, length_threshold, actions,
                    action_keys, action_for_all, files, dirs, files0, dirs0, pc,
                    passes, todo, cur, choice, pending, moves >>

\* FileOrganizer.enqueue_action: queue the offered candidate, return True.
enqueue_action ==
    /\ pc = "choose"
    /\ ~interactive
    /\ offered # <<>>
    /\ queue' = Append(queue, [action |-> cur, candidate |-> Head(offered)])
    /\ offered' = <<>>
    /\ line' = NoInput
    /\ UNCHANGED << exc, cache, log >>
    /\ UNCHANGED << interactive, source_roots, rules, length_threshold, actions,
                    action_keys, action_for_all, files, dirs, files0, dirs0, pc,
                    passes, todo, cur, choice, pending, moves >>

\* InteractiveFileOrganizer.enqueue_action, the if/elif chain on choice, with
\* the set of choices each branch tests for: append and return True, return
\* True, set 'skip', return False, set 'accept', sys.exit.
Branches(c, yes, skip, skipall, no, all, quit) ==
    /\ queue' = IF c \in yes
                THEN Append(queue, [action |-> cur, candidate |-> Head(offered)])
                ELSE queue
    /\ offered' = IF c \in yes \cup skip THEN <<>>
                  ELSE IF c \in no \ skipall THEN Tail(offered)
                  ELSE offered
    /\ action_for_all' = IF c \in skipall \ (yes \cup skip) THEN "skip"
                         ELSE IF c \in all \ (yes \cup skip \cup no) THEN "accept"
                         ELSE action_for_all
    /\ pc' = IF c \in quit \ (yes \cup skip \cup skipall \cup no \cup all)
             THEN "exited" ELSE pc

\* enqueue_action with 's' in the branch of 'n': skip offers the next candidate.
EnqueueBranch_SkipOffersNext(c) ==
    Branches(c, {"y"}, {}, {"k"}, {"n", "", "s"}, {"a"}, {"q"})

\* enqueue_action with 'n' and '' in the branch of 's': no abandons the action.
EnqueueBranch_NoAbandons(c) ==
    Branches(c, {"y"}, {"s", "n", ""}, {"k"}, {}, {"a"}, {"q"})

\* enqueue_action without the branch of 'q': quit is an unknown choice.
EnqueueBranch_QuitUnknown(c) ==
    Branches(c, {"y"}, {"s"}, {"k"}, {"n", ""}, {"a"}, {})

\* enqueue_action with 'a' in the branch of 'y': all accepts this candidate only.
EnqueueBranch_AllOnce(c) ==
    Branches(c, {"y", "a"}, {"s"}, {"k"}, {"n", ""}, {}, {"q"})

\* enqueue_action with 'k' in the branch of 's': skip all skips this action only.
EnqueueBranch_SkipAllOnce(c) ==
    Branches(c, {"y"}, {"s", "k"}, {}, {"n", ""}, {"a"}, {"q"})

\* enqueue_action without the return False of 'n' and '': the same candidate
\* is proposed again.
EnqueueBranch_NoReprompts(c) ==
    Branches(c, {"y"}, {"s"}, {"k"}, {}, {"a"}, {"q"})

\* InteractiveFileOrganizer.enqueue_action: what one turn of its loop does
\* with choice c.
EnqueueBranch(c) ==
    Branches(c, {"y"}, {"s"}, {"k"}, {"n", ""}, {"a"}, {"q"})

\* InteractiveFileOrganizer.enqueue_action: one turn of its loop. The choice
\* is forced when action_for_all is set and read from the terminal otherwise,
\* at a prompt that shows candidate.ratio and so reads candidate.elements.
interactive_enqueue_action ==
    /\ pc = "choose"
    /\ interactive
    /\ offered # <<>>
    /\ cache' = IF action_for_all = None THEN CacheAfter(cache, Head(offered))
                ELSE cache
    /\ \E inp \in Inputs :
         /\ line' = IF action_for_all = None THEN inp ELSE NoInput
         /\ choice' = IF action_for_all = "accept" THEN "y"
                      ELSE IF action_for_all = "skip" THEN "s"
                      ELSE LowerLine(inp)
    /\ EnqueueBranch(choice')
    /\ UNCHANGED << exc, log >>
    /\ UNCHANGED << interactive, source_roots, rules, length_threshold, actions,
                    action_keys, files, dirs, files0, dirs0, passes, todo, cur,
                    pending, moves >>

\* ------------------------------------------------------------------ run: execute_actions

\* FileOrganizer.grouped_queue: groupby(sorted(q, key), key) with the chosen
\* candidate as the key: a list of [key, group], key the __key of the
\* group's candidates.
grouped_queue(q) ==
    LET sorted == StableSort(q, [i \in DOMAIN q |-> [j \in DOMAIN q |->
                                 CandLess(q[i].candidate, q[j].candidate)]])
    IN  GroupRuns([i \in DOMAIN sorted |-> <<CandKey(sorted[i].candidate), sorted[i]>>])

\* choose_actions has returned.
Chosen == pc = "choose" /\ offered = <<>> /\ todo = <<>>

\* FileOrganizer.execute_actions: start the moves of the grouped queue.
execute_actions ==
    /\ Chosen
    /\ ~interactive
    /\ pending' = grouped_queue(queue)
    /\ pc' = IF pending' = <<>> THEN "cleanup" ELSE "moving"
    /\ line' = NoInput
    /\ UNCHANGED << exc, cache, log >>
    /\ UNCHANGED << interactive, source_roots, rules, length_threshold, actions,
                    action_keys, queue, action_for_all, files, dirs, files0,
                    dirs0, passes, todo, cur, offered, choice, moves >>

\* InteractiveFileOrganizer.execute_actions, up to its prompt: return at
\* once when nothing is queued, print the grouped queue otherwise.
interactive_execute_actions ==
    /\ Chosen
    /\ interactive
    /\ pc' = IF queue = <<>> THEN "cleanup" ELSE "confirm"
    /\ line' = NoInput
    /\ UNCHANGED << exc, cache, log >>
    /\ UNCHANGED << interactive, source_roots, rules, length_threshold, actions,
                    action_keys, queue, action_for_all, files, dirs, files0,
                    dirs0, passes, todo, cur, offered, choice, pending, moves >>

\* InteractiveFileOrganizer.execute_actions, one turn of the loop around
\* 'Perform?', with the choices that end the loop and those that go on to
\* FileOrganizer.execute_actions.
PerformOf(c, ends, yes) ==
    /\ pending' = IF c \in ends \cap yes THEN grouped_queue(queue) ELSE pending
    /\ pc' = IF c \in ends \cap yes THEN "moving"
             ELSE IF c \in ends THEN "cleanup"
             ELSE pc

\* execute_actions taking the empty line for the default the prompt shows, (Y)es.
Perform_DefaultYes(c) == PerformOf(c, {"y", "n", "q", ""}, {"y", ""})

\* InteractiveFileOrganizer.execute_actions: what one turn of the loop around
\* 'Perform?' does with choice c.
Perform(c) == PerformOf(c, {"y", "n", "q", ""}, {"y"})

confirm ==
    /\ pc = "confirm"
    /\ \E inp \in Inputs :
         /\ line' = inp
         /\ choice' = LowerLine(inp)
    /\ Perform(choice')
    /\ UNCHANGED << exc, cache, log >>
    /\ UNCHANGED << interactive, source_roots, rules, length_threshold, actions,
                    action_keys, queue, action_for_all, files, dirs, files0,
                    dirs0, passes, todo, cur, offered, moves >>

\* shutil.move(src, dst): where the file ends up.
MoveTarget(src, dst) == IF dst \in dirs THEN Join(dst, Basename(src)) ELSE dst

\* shutil.move(src, dst) raises: the source is gone, the name is taken in the
\* target directory, or the target is no directory and cannot be created.
MoveRaises(src, dst) ==
    \/ src \notin files
    \/ dst \in dirs /\ MoveTarget(src, dst) \in files \cup dirs
    \/ dst \notin dirs /\ Dirname(dst) \notin dirs

\* move_group that moves the first file of a group only.
RestPending_FirstOfGroup == Tail(pending)

\* The queue entries still to be moved once the first pending one is done.
RestPending ==
    LET g == Head(pending)
    IN  IF Tail(g.group) = <<>> THEN Tail(pending)
        ELSE <<[g EXCEPT !.group = Tail(@)]>> \o Tail(pending)

\* execute_action_group / move_group / move_single: the next move of the
\* pending groups. The move raises when it must, and may raise for a reason
\* outside the model (oserror); nothing catches it short of the caller of run().
move_single ==
    /\ pc = "moving"
    /\ LET g == Head(pending)
           src == SourcePath(Head(g.group).action)
           dst == Join(g.key[1], g.key[2])
       IN  \E oserror \in BOOLEAN :
             IF oserror \/ MoveRaises(src, dst)
             THEN /\ moves' = Append(moves, [src |-> src, dst |-> dst, ok |-> FALSE])
                  /\ pc' = "raised"
                  /\ exc' = "OSError"
                  /\ UNCHANGED << files, pending >>
             ELSE /\ moves' = Append(moves, [src |-> src, dst |-> dst, ok |-> TRUE])
                  /\ files' = (files \ {src, MoveTarget(src, dst)}) \cup {MoveTarget(src, dst)}
                  /\ pending' = RestPending
                  /\ pc' = IF pending' = <<>> THEN "cleanup" ELSE "moving"
                  /\ exc' = exc
    /\ line' = NoInput
    /\ UNCHANGED << cache, log >>
    /\ UNCHANGED << interactive, source_roots, rules, length_threshold, actions,
                    action_keys, queue, action_for_all, dirs, files0, dirs0,
                    passes, todo, cur, offered, choice >>

\* ------------------------------------------------------------------ run: cleanup_actions

\* os.rmdir(d) succeeds: d is a directory with nothing in it.
CanRmdir(ds, d) ==
    /\ d \in ds
    /\ ~\E f \in files : Dirname(f) = d
    /\ ~\E e \in ds : Dirname(e) = d

\* os.removedirs, the loop after the leaf: remove the directories above
\* while they are empty, up to the end of the relative path.
RECURSIVE PruneUp(_, _, _)
PruneUp(ds, root, head) ==
    IF head = <<>> THEN ds
    ELSE IF CanRmdir(ds, Join(root, head))
         THEN PruneUp(ds \ {Join(root, head)}, root, Dirname(head))
         ELSE ds

\* cleanup with shutil.rmtree in the place of os.removedirs: the parent
\* directory goes whatever it holds.
RemoveDirs_Rmtree(ds, root, parent) == ds \ {Join(root, parent)}

\* os.chdir(root); os.removedirs(parent) inside try/except OSError.
RemoveDirs(ds, root, parent) ==
    IF root \in ds /\ CanRmdir(ds, Join(root, parent))
    THEN PruneUp(ds \ {Join(root, parent)}, root, Dirname(parent))
    ELSE ds

\* cleanup_actions, the loop over the groups of the queue by parent directory.
RECURSIVE CleanupGroups(_, _)
CleanupGroups(ds, groups) ==
    IF groups = <<>> THEN ds
    ELSE LET parent == Head(groups).key
             root == actions[Head(groups).group[1].action].root
         IN  IF parent = <<>> THEN CleanupGroups(ds, Tail(groups))
             ELSE CleanupGroups(RemoveDirs(ds, root, parent), Tail(groups))

\* groupby(sorted(self.queue, key=key), key=key), key the directory of the source.
ParentGroups(q) ==
    LET Parent(x) == Dirname(actions[x.action].source)
        sorted == StableSort(q, [i \in DOMAIN q |-> [j \in DOMAIN q |->
                                 StrLess(Parent(q[i]), Parent(q[j]))]])
    IN  GroupRuns([i \in DOMAIN sorted |-> <<Parent(sorted[i]), sorted[i]>>])

\* cleanup_actions: the removals it tries, each os.removedirs(parent) after
\* os.chdir(root) with root taken from the first decision of the group.
CleanupAttempts(groups) ==
    { [root |-> actions[groups[g].group[1].action].root, parent |-> groups[g].key] :
        g \in { h \in DOMAIN groups : groups[h].key # <<>> } }

\* FileOrganizer.cleanup_actions, then run() returns.
cleanup_actions ==
    /\ pc = "cleanup"
    /\ dirs' = CleanupGroups(dirs, ParentGroups(queue))
    /\ pc' = "done"
    /\ line' = NoInput
    /\ UNCHANGED << exc, cache, log >>
    /\ UNCHANGED << interactive, source_roots, rules, length_threshold, actions,
                    action_keys, queue, action_for_all, files, files0, dirs0,
                    passes, todo, cur, offered, choice, pending, moves >>

\* ------------------------------------------------------------------ specification

\* The directories of a file system holding the source files fs and the
\* destination directories ts.
DirsOf(fs, ts) ==
    {SRoot, RRoot, TRoot, URoot} \cup ts \cup UDirs
      \cup UNION { Ancestors(Dirname(f)) : f \in fs }

\* FileOrganizer.__init__, on any of the modelled file systems.
Init ==
    /\ interactive \in BOOLEAN
    /\ source_roots \in {<<SRoot, RRoot>>, NoSources}
    /\ rules \in RulePool
    /\ length_threshold = 3
    /\ actions = <<>>
    /\ action_keys = <<>>
    /\ queue = <<>>
    /\ action_for_all = None
    /\ files \in { fs \in SUBSET FilePool : Cardinality(fs) <= MaxFiles }
    /\ \E ts \in SUBSET DirPool : dirs = DirsOf(files, ts)
    /\ files0 = files
    /\ dirs0 = dirs
    /\ pc = "new"
    /\ passes = {}
    /\ todo = <<>>
    /\ cur = NoKey
    /\ offered = <<>>
    /\ line = NoInput
    /\ choice = NoInput
    /\ pending = <<>>
    /\ moves = <<>>
    /\ exc = None
    /\ cache = NoEntry
    /\ log = <<>>

Next ==
    \/ \E target_root \in TargetRoots : calculate_actions(target_root)
    \/ run
    \/ consider_action
    \/ enqueue_action
    \/ interactive_enqueue_action
    \/ execute_actions
    \/ interactive_execute_actions
    \/ confirm
    \/ move_single
    \/ cleanup_actions

Spec == Init /\ [][Next]_vars

\* A turn of the interactive enqueue_action that does not come back to the
\* same prompt: the choice is forced by action_for_all, or the line read is
\* one of the choices the if/elif chain tests for.
RecognizedAnswer ==
    /\ interactive_enqueue_action
    /\ choice' \in {"y", "s", "k", "n", "", "a", "q"}

\* The program keeps running: choose_actions goes on to the next action and
\* the next candidate, and the user gives a recognized answer at a prompt
\* sooner or later.
SpecFair ==
    /\ Spec
    /\ WF_vars(consider_action)
    /\ WF_vars(enqueue_action)
    /\ WF_vars(RecognizedAnswer)

\* ------------------------------------------------------------------ Candidate.elements

\* The reads of elements one behaviour makes.
MaxReads == 3

\* The values of length_threshold candidates are constructed with.
Thresholds == {3, 4}

\* The candidates whose elements are read: the directories of DirPool with a
\* score, at each threshold.
CandPool ==
    { Candidate(Dirname(d), Basename(d), sc, th) :
        d \in DirPool, sc \in {1, 2}, th \in Thresholds }

\* Reading c.elements: the cached value of an equal argument when there is
\* one, the value the function computes for c otherwise, which is then cached.
read_elements ==
    /\ Len(log) < MaxReads
    /\ \E c \in CandPool :
         /\ log' = Append(log, [candidate |-> c, elements |-> ElementsRead(cache, c)])
         /\ cache' = CacheAfter(cache, c)
    /\ UNCHANGED << interactive, source_roots, rules, length_threshold, actions,
                    action_keys, queue, action_for_all, files, dirs, files0,
                    dirs0, pc, passes, todo, cur, offered, line, choice,
                    pending, moves, exc >>

\* A program that constructs candidates and reads their elements, without an
\* organizer at work.
InitElements ==
    /\ interactive = FALSE
    /\ source_roots = NoSources
    /\ rules = {}
    /\ length_threshold = 3
    /\ actions = <<>>
    /\ action_keys = <<>>
    /\ queue = <<>>
    /\ action_for_all = None
    /\ files = {}
    /\ dirs = DirsOf({}, DirPool)
    /\ files0 = files
    /\ dirs0 = dirs
    /\ pc = "new"
    /\ passes = {}
    /\ todo = <<>>
    /\ cur = NoKey
    /\ offered = <<>>
    /\ line = NoInput
    /\ choice = NoInput
    /\ pending = <<>>
    /\ moves = <<>>
    /\ exc = None
    /\ cache = NoEntry
    /\ log = <<>>

NextElements == read_elements

SpecElements == InitElements /\ [][NextElements]_vars

\* ------------------------------------------------------------------ a destination root inside a source root

\* The destination root of the example, a directory of its source root.
InnerRoot == SRoot \o <<"/","t">>

\* Its one destination directory.
InnerDirs == { InnerRoot \o <<"/","a","b","c">> }

\* The files below the source root: one still to be sorted, one already in
\* the destination directory.
InnerFilePool == { SRoot \o <<"/","a","b","c">>,
                   InnerRoot \o <<"/","a","b","c","/","x","y","z">> }

\* FileOrganizer.__init__ with the one source root, as in the example.
InitInner ==
    /\ interactive \in BOOLEAN
    /\ source_roots = <<SRoot>>
    /\ rules = {}
    /\ length_threshold = 3
    /\ actions = <<>>
    /\ action_keys = <<>>
    /\ queue = <<>>
    /\ action_for_all = None
    /\ files \in SUBSET InnerFilePool
    /\ dirs = {SRoot, InnerRoot} \cup InnerDirs
    /\ files0 = files
    /\ dirs0 = dirs
    /\ pc = "new"
    /\ passes = {}
    /\ todo = <<>>
    /\ cur = NoKey
    /\ offered = <<>>
    /\ line = NoInput
    /\ choice = NoInput
    /\ pending = <<>>
    /\ moves = <<>>
    /\ exc = None
    /\ cache = NoEntry
    /\ log = <<>>

\* main() of the example: calculate_actions for the destination root, run().
NextInner ==
    \/ calculate_actions(InnerRoot)
    \/ run
    \/ consider_action
    \/ enqueue_action
    \/ interactive_enqueue_action
    \/ execute_actions
    \/ interactive_execute_actions
    \/ confirm
    \/ move_single
    \/ cleanup_actions

SpecInner == InitInner /\ [][NextInner]_vars

\* ------------------------------------------------------------------ properties

\* The step is a turn of the loop of the interactive enqueue_action that
\* prompted for candidate Head(offered) and read a line lower-cased to c.
Answered(c) ==
    /\ pc = "choose" /\ interactive /\ offered # <<>>
    /\ action_for_all = None
    /\ line' \in Inputs
    /\ choice' = c

\* The choices enqueue_action knows.
Known == {"y", "s", "k", "n", "", "a", "q"}

\* The key of the action a queue entry is for has an entry in q.
Queued(q, key) == \E i \in DOMAIN q : q[i].action = key

\* C1 as claimed: answering 'skip' rejects only the offered Candidate, the
\* next-ranked Candidate of the same Action stays on offer and nothing is queued.
C1_SkipOffersNextCandidate ==
    [][Answered("s") =>
         /\ offered' = Tail(offered)
         /\ cur' = cur
         /\ queue' = queue]_vars

\* C1 as amended: answering 'skip' abandons the whole Action: no other
\* Candidate of it stays on offer, nothing is queued for it, and resolution
\* goes on with the remaining Actions.
C1_SkipAbandonsAction ==
    [][Answered("s") =>
         /\ offered' = <<>>
         /\ queue' = queue
         /\ todo' = todo
         /\ action_for_all' = action_for_all
         /\ pc' = "choose"]_vars

\* An Action with lower-ranked Candidates left was abandoned by 'skip'.
C1_Witness ==
    /\ pc = "choose" /\ interactive /\ line = "s" /\ choice = "s"
    /\ offered = <<>>
    /\ Cardinality(actions[cur].candidates) > 1
    /\ ~Queued(queue, cur)

\* C2 as claimed: answering 'no' or the empty line rejects the whole Action,
\* no lower-ranked Candidate of it stays on offer and nothing is queued.
C2_NoAbandonsAction ==
    [][(Answered("n") \/ Answered("")) =>
         /\ offered' = <<>>
         /\ queue' = queue]_vars

\* C2 as amended: answering 'no' or the empty line rejects only the offered
\* Candidate: the next-ranked Candidate of the same Action is on offer next,
\* nothing is queued, and the Action is abandoned only when none remains.
C2_NoOffersNextCandidate ==
    [][(Answered("n") \/ Answered("")) =>
         /\ offered' = Tail(offered)
         /\ cur' = cur
         /\ queue' = queue
         /\ todo' = todo
         /\ action_for_all' = action_for_all
         /\ pc' = "choose"]_vars

\* After 'no' or the empty line a lower-ranked Candidate of the same Action
\* is on offer.
C2_Witness ==
    /\ pc = "choose" /\ interactive /\ line \in {"n", ""} /\ choice = line
    /\ offered # <<>>
    /\ Len(offered) < Cardinality(actions[cur].candidates)
    /\ ~Queued(queue, cur)

\* C3: a 'quit' answer at a resolution prompt ends the run at once with the
\* queue as it was; no step follows it (no prompt, no decision, no move, no
\* cleanup), and the file system is as it was at construction.
C3_QuitAborts ==
    [][/\ pc # "exited"
       /\ Answered("q") => pc' = "exited"
       /\ pc' = "exited" =>
            /\ Answered("q")
            /\ queue' = queue
            /\ moves' = <<>>
            /\ files' = files0
            /\ dirs' = dirs0]_vars

\* The run was quit at a prompt after a decision had been queued.
C3_Witness ==
    /\ pc = "exited" /\ line = "q"
    /\ queue # <<>>
    /\ offered # <<>>

\* The candidate is a top-ranked one of the action of key.
TopRanked(key, c) ==
    /\ c \in actions[key].candidates
    /\ \A d \in actions[key].candidates : ~KeyLess(d, c)

\* C4: 'accept-all' switches to ACCEPT_ALL with the offered Candidate still
\* current, the mode stays, and in it every turn of enqueue_action commits the
\* Candidate on offer without a prompt: the current one right after the
\* answer, the top-ranked one of every Action considered later.
C4_AcceptAllSticky ==
    [][/\ Answered("a") =>
            /\ action_for_all' = "accept"
            /\ offered' = offered /\ cur' = cur /\ queue' = queue
       /\ action_for_all = "accept" => action_for_all' = "accept"
       /\ (action_for_all = "accept" /\ pc = "choose") => line' = NoInput
       /\ (action_for_all = "accept" /\ pc = "choose" /\ offered # <<>>) =>
            /\ queue' = Append(queue, [action |-> cur, candidate |-> Head(offered)])
            /\ offered' = <<>>
            /\ choice = "y" => TopRanked(cur, Head(offered))]_vars

\* In ACCEPT_ALL an Action considered after the answer has been committed
\* with its top-ranked Candidate, the step having read nothing.
C4_Witness ==
    /\ action_for_all = "accept" /\ pc = "choose"
    /\ line = NoInput /\ choice = "y"
    /\ offered = <<>>
    /\ Len(queue) >= 2
    /\ queue[Len(queue)].action = cur
    /\ TopRanked(cur, queue[Len(queue)].candidate)
    /\ queue[Len(queue) - 1].action # cur

\* C5: 'skip-all' commits nothing and switches to SKIP_ALL, the mode stays,
\* and in it no turn of enqueue_action prompts and the queue does not grow.
C5_SkipAllSticky ==
    [][/\ Answered("k") =>
            /\ action_for_all' = "skip"
            /\ queue' = queue
       /\ action_for_all = "skip" =>
            /\ action_for_all' = "skip"
            /\ queue' = queue
       /\ (action_for_all = "skip" /\ pc = "choose") => line' = NoInput
       /\ (action_for_all = "skip" /\ pc = "choose" /\ offered # <<>>) =>
            offered' = <<>>]_vars

\* In SKIP_ALL an Action considered after the answer has been skipped, the
\* step having read nothing, with decisions of before the answer queued.
C5_Witness ==
    /\ action_for_all = "skip" /\ pc = "choose"
    /\ line = NoInput /\ choice = "s"
    /\ offered = <<>>
    /\ queue # <<>>
    /\ cur # NoKey /\ ~Queued(queue, cur)
    /\ todo = <<>>

\* C6: the prompts fail closed. An unknown answer at a resolution prompt
\* changes nothing and the same Candidate stays on offer; the queue grows only
\* by a 'y' typed at the prompt or forced by a typed 'a'; at the final
\* confirmation only a typed 'y' starts the moves.
C6_FailClosed ==
    [][/\ (\E c \in { LowerLine(i) : i \in Inputs } \ Known : Answered(c)) =>
            UNCHANGED << queue, action_for_all, offered, cur, todo, pc, moves >>
       /\ (interactive /\ queue' # queue) =>
            /\ choice' = "y"
            /\ line' \in {"y", "Y"} \/ action_for_all = "accept"
       /\ (action_for_all' = "accept" /\ action_for_all # "accept") =>
            line' \in {"a"}
       /\ (interactive /\ pc # "moving" /\ pc' = "moving") =>
            /\ pc = "confirm"
            /\ line' \in {"y", "Y"}
       /\ (interactive /\ moves' # moves) => pc = "moving"]_vars

\* An unknown answer was given and the same Candidate is on offer again.
C6_Witness ==
    /\ pc = "choose" /\ interactive /\ action_for_all = None
    /\ line = "yes" /\ choice = "yes"
    /\ offered # <<>>
    /\ queue = <<>>

\* C7: after 'no' at the final confirmation run() returns with no move made,
\* every queued source file at its path and every directory still there.
C7_NoDiscardsPlan ==
    (interactive /\ queue # <<>> /\ choice = "n" /\ pc \in {"cleanup", "done"}) =>
        /\ moves = <<>>
        /\ \A i \in DOMAIN queue : SourcePath(queue[i].action) \in files
        /\ files = files0
        /\ dirs = dirs0

\* run() has returned after 'no' at the confirmation, and cleanup has tried
\* the parent directory of a queued source.
C7_Witness ==
    /\ interactive /\ queue # <<>> /\ choice = "n" /\ pc = "done"
    /\ \E i \in DOMAIN queue : Dirname(actions[queue[i].action].source) # <<>>

\* C8 as claimed: when a move raises, every queued decision is still
\* attempted, each once.
C8_FailedMoveDoesNotAbort ==
    (pc \in {"raised", "done"} /\ \E i \in DOMAIN moves : ~moves[i].ok) =>
        \A k \in DOMAIN queue :
            Cardinality({ i \in DOMAIN moves :
                            moves[i].src = SourcePath(queue[k].action) }) = 1

\* The group of grouped_queue(q) that holds the entry e.
GroupOf(q, e) ==
    CHOOSE g \in DOMAIN grouped_queue(q) :
        e \in Range(grouped_queue(q)[g].group)

\* C9 as claimed: two queued decisions with the same destination directory
\* (root, name) are in the same group of grouped_queue, whatever their scores.
C9_OneGroupPerDestination ==
    \A i, j \in DOMAIN queue :
        (/\ queue[i].candidate.root = queue[j].candidate.root
         /\ queue[i].candidate.name = queue[j].candidate.name) =>
            GroupOf(queue, queue[i]) = GroupOf(queue, queue[j])

\* The queue is ascending by source path.
QueueOrdered ==
    \A i, j \in DOMAIN queue :
        i < j => StrLeq(actions[queue[i].action].source,
                        actions[queue[j].action].source)

\* C10: the queue is always ascending by source path, and nothing after the
\* resolution pass (the grouping by destination or by parent) changes it.
C10_QueueInVisitationOrder ==
    [][/\ QueueOrdered'
       /\ pc # "choose" => queue' = queue]_vars

\* Moves were made in an order that is not the order of the queue.
C10_Witness ==
    /\ pc = "done" /\ Len(queue) >= 2 /\ Len(moves) = Len(queue)
    /\ \E i \in DOMAIN moves : moves[i].src # SourcePath(queue[i].action)

\* C11: in either mode and whatever the answers, each Action has at most one
\* entry in the queue, and the Candidate queued for it is one of the
\* candidates of that Action.
C11_AtMostOneDecisionPerAction ==
    \A i \in DOMAIN queue :
        /\ queue[i].action \in DOMAIN actions
        /\ queue[i].candidate \in actions[queue[i].action].candidates
        /\ \A j \in DOMAIN queue : queue[j].action = queue[i].action => j = i

\* An interactive resolution pass has ended with two Actions decided, one of
\* them for a Candidate reached by rejecting a higher-ranked one.
C11_Witness ==
    /\ Chosen /\ interactive
    /\ Len(queue) >= 2
    /\ \E i \in DOMAIN queue :
         /\ ~TopRanked(queue[i].action, queue[i].candidate)
         /\ Cardinality(actions[queue[i].action].candidates) >= 2

\* C12: in automatic mode, once choose_actions has returned, the queue holds
\* one decision for every stored Action and no other, in the order of the
\* visit, each for a Candidate no other Candidate of the Action is ranked
\* before.
C12_AutomaticQueuesTopRanked ==
    (~interactive /\ (Chosen \/ pc \in {"moving", "cleanup", "done"})) =>
        /\ Len(queue) = Cardinality(DOMAIN actions)
        /\ \A key \in DOMAIN actions :
             \E i \in DOMAIN queue :
                 /\ queue[i].action = key
                 /\ TopRanked(key, queue[i].candidate)
                 /\ \A j \in DOMAIN queue : queue[j].action = key => j = i

\* Automatic mode has decided two Actions, one of them with a lower-ranked
\* Candidate that was not queued.
C12_Witness ==
    /\ ~interactive /\ Chosen
    /\ Len(queue) = 2
    /\ \E key \in DOMAIN actions : \E c \in actions[key].candidates :
           ~TopRanked(key, c)

\* C13 as claimed: iterating an Action yields its Candidates by score
\* descending, then ratio descending, then name ascending, and the same
\* candidate set is always iterated in the same order: of every stored
\* Action that can be ranked there is one ranking.
C13_RankingDeterministic ==
    \A key \in DOMAIN actions :
        ~IterRaises(actions[key].candidates) =>
            /\ \A r \in Rankings(actions[key].candidates) :
                 \A i, j \in DOMAIN r : i < j => ~KeyLess(r[j], r[i])
            /\ \A r1, r2 \in Rankings(actions[key].candidates) : r1 = r2

\* A rule's pattern occurs in the source path of the action of key.
RuleMatches(key) == \E q \in rules : Contains(actions[key].source, q.pattern)

\* c is the candidate a matching rule forces for the action of key: the
\* rule's target directory with the score 9999.
Forced(key, c) ==
    \E q \in rules :
        /\ Contains(actions[key].source, q.pattern)
        /\ c.root = Dirname(q.target) /\ c.name = Basename(q.target)
        /\ c.score = 9999

\* C14: when an Action whose source path contains a rule pattern is ranked,
\* all its Candidates are on offer, the rule's forced Candidate first and no
\* organically scored Candidate before a forced one; and the Candidate
\* automatic mode queues for such an Action is the forced one.
C14_RuleOutranksOrganic ==
    [][/\ (pc = "choose" /\ offered = <<>> /\ offered' # <<>> /\ RuleMatches(cur')) =>
            /\ Range(offered') = actions[cur'].candidates
            /\ Forced(cur', Head(offered'))
            /\ \A i, j \in DOMAIN offered' :
                 (Forced(cur', offered'[j]) /\ ~Forced(cur', offered'[i])) => j < i
       /\ (~interactive /\ queue' # queue /\ RuleMatches(cur)) =>
            Forced(cur, queue'[Len(queue')].candidate)]_vars

\* Automatic mode has queued the forced Candidate of an Action that also has
\* an organically scored Candidate that matched two of its elements.
C14_Witness ==
    /\ ~interactive /\ Chosen
    /\ \E i \in DOMAIN queue :
         /\ RuleMatches(queue[i].action)
         /\ Forced(queue[i].action, queue[i].candidate)
         /\ \E c \in actions[queue[i].action].candidates :
              /\ ~Forced(queue[i].action, c)
              /\ c.score >= 2

\* The Action map of an organizer on which calculate_actions was called for
\* target_root only.
SinglePass(target_root) ==
    ProcessRoots([actions |-> <<>>, keys |-> <<>>], source_roots, target_root).actions

\* The candidates the pass for target_root alone stores for key.
SingleCandidates(target_root, key) ==
    IF key \in DOMAIN SinglePass(target_root)
    THEN SinglePass(target_root)[key].candidates
    ELSE {}

\* The Action map is the merge by source key of the single passes for the
\* destination roots calculated so far.
MergedPasses ==
    /\ DOMAIN actions = UNION { DOMAIN SinglePass(tr) : tr \in passes }
    /\ \A key \in DOMAIN actions :
         actions[key].candidates =
             UNION { SingleCandidates(tr, key) : tr \in passes }

\* C16: after any calls of calculate_actions, in any order, every source key
\* has the union of the candidate sets the passes yield one by one; and no
\* call removes an Action or a Candidate stored before.
C16_PassesAccumulate ==
    /\ [](pc = "new" => MergedPasses)
    /\ [][\A key \in DOMAIN actions :
            /\ key \in DOMAIN actions'
            /\ actions[key].candidates \subseteq actions'[key].candidates]_vars

\* Two passes have been calculated: one Action has candidates of both
\* destination roots, another of one root only.
C16_Witness ==
    /\ pc = "new" /\ passes = {TRoot, URoot}
    /\ \E key \in DOMAIN actions :
         /\ \E c \in actions[key].candidates : c.root = TRoot
         /\ \E c \in actions[key].candidates : c.root = URoot
    /\ \E key \in DOMAIN actions :
         \A c \in actions[key].candidates : c.root = TRoot

\* The tokens of a directory name that count as elements, and those of them
\* that occur in relpath when case is ignored.
Tokens(name) ==
    { e \in Range(SplitFrom(name, 1, <<>>)) : Len(e) >= length_threshold }

Occurring(name, relpath) ==
    { e \in Tokens(name) : Contains(LowerStr(relpath), LowerStr(e)) }

\* The source files a pass has scanned, with their root-relative paths.
Scanned ==
    UNION { { [key |-> f, relpath |-> Relpath(f, source_roots[r])] :
                f \in { g \in files0 : Below(g, source_roots[r]) } } :
            r \in DOMAIN source_roots }

\* C17: when the calls of calculate_actions are over, for every scanned
\* source file and every directory of a calculated destination root, the
\* file's Action holds a Candidate for the directory that no rule forced if
\* and only if at least one element token of the directory's name occurs,
\* case ignored, in the file's root-relative path; the score of that
\* Candidate is the number of such tokens. Nothing but calculate_actions
\* changes the Action map.
C17_ScoreCountsOccurringTokens ==
    /\ [](pc = "new" =>
            \A tr \in passes : \A x \in Scanned : \A t \in get_targets(tr, dirs0) :
                LET n == Cardinality(Occurring(t, x.relpath))
                    organic == IF x.key \in DOMAIN actions
                               THEN { c \in actions[x.key].candidates :
                                        c.root = tr /\ c.name = t /\ c.score # 9999 }
                               ELSE {}
                IN  /\ n > 0 <=> organic # {}
                    /\ \A c \in organic : c.score = n)
    /\ [][pc # "new" => UNCHANGED << actions, passes >>]_vars

\* An Action holds a Candidate of score 2 for a directory whose name matches
\* the source only when case is ignored.
C17_Witness ==
    \E key \in DOMAIN actions : \E c \in actions[key].candidates :
        /\ c.score = 2
        /\ \E e \in Tokens(c.name) :
             /\ ~Contains(actions[key].source, e)
             /\ Contains(LowerStr(actions[key].source), LowerStr(e))

\* C18: on an organizer constructed without source roots, a call of
\* calculate_actions without the argument does not return: it raises
\* FileOrganizerError, and the Action map, the queue and the file system are
\* as they were. Nothing else raises that error.
C18_NoSourcesIsConfigurationError ==
    [][/\ (source_roots = NoSources /\ pc = "new") => pc' # "new"
       /\ (pc = "new" /\ pc' = "raised") =>
            /\ source_roots = NoSources
            /\ exc' = "FileOrganizerError"
            /\ UNCHANGED << actions, action_keys, queue, passes, files, dirs >>
       /\ exc' = "FileOrganizerError" =>
            source_roots = NoSources /\ pc = "new"]_vars

\* The call has raised on a file system where a pass with source roots
\* would have stored an Action.
C18_Witness ==
    /\ pc = "raised" /\ exc = "FileOrganizerError"
    /\ actions = <<>> /\ queue = <<>>
    /\ SRoot \o <<"/","a","b","c">> \in files
    /\ TRoot \o <<"/","a","b","c">> \in dirs

\* No directory of a calculated destination root has an element token in
\* the root-relative path of the scanned file x, and no rule pattern occurs in it.
Unmatched(x) ==
    /\ \A tr \in passes : \A t \in get_targets(tr, dirs0) :
           \A e \in Range(SplitFrom(t, 1, <<>>)) :
               Len(e) >= length_threshold =>
                   ~Contains(LowerStr(x.relpath), LowerStr(e))
    /\ \A q \in rules : ~Contains(x.relpath, q.pattern)

\* C19: every stored Action has a candidate. When the calls of
\* calculate_actions are over, a scanned file that no destination and no rule
\* matched has no Action; and a file without an Action is never considered,
\* queued or moved, and stays where it is.
C19_NoActionWithoutCandidate ==
    /\ [](/\ \A key \in DOMAIN actions : actions[key].candidates # {}
          /\ (pc = "new" /\ source_roots # NoSources) =>
               \A x \in Scanned : Unmatched(x) => x.key \notin DOMAIN actions
          /\ \A f \in files0 \ DOMAIN actions :
               /\ cur # f
               /\ \A i \in DOMAIN todo : todo[i] # f
               /\ \A i \in DOMAIN queue : queue[i].action # f
               /\ \A i \in DOMAIN moves : moves[i].src # f
               /\ f \in files)
    /\ [][pc # "new" => actions' = actions]_vars

\* run() has returned after moving a file, with an unmatched file left in
\* its place beside it.
C19_Witness ==
    /\ pc = "done" /\ passes # {} /\ source_roots # NoSources
    /\ \E i \in DOMAIN moves : moves[i].ok
    /\ \E x \in Scanned : Unmatched(x) /\ x.key \in files

\* The directory d holds nothing.
EmptyDir(d) ==
    /\ ~\E f \in files : Dirname(f) = d
    /\ ~\E e \in dirs : Dirname(e) = d

\* The directories from the parent of the source of the action of key up to,
\* and without, its source root.
ParentChain(key) ==
    { d \in Ancestors(Dirname(SourcePath(key))) : Below(d, actions[key].root) }

\* C15 as claimed: when run() has returned after an execution in which every
\* queued move was made, no directory between a queued source and its source
\* root is left empty; the source roots are still there, and no directory
\* that holds something was removed.
C15_CleanupPrunesEmptyParents ==
    (/\ pc = "done" /\ queue # <<>>
     /\ Len(moves) = Len(queue)
     /\ \A i \in DOMAIN moves : moves[i].ok) =>
        /\ \A i \in DOMAIN queue :
             \A d \in ParentChain(queue[i].action) \cap dirs : ~EmptyDir(d)
        /\ {SRoot, RRoot} \subseteq dirs
        /\ \A f \in files : Dirname(f) \in dirs
        /\ \A d \in dirs : Dirname(d) \in dirs \/ Dirname(d) = <<Sep>>

\* C20 as claimed: every read of elements yields the tokens of the
\* candidate's name that are at least as long as its own length_threshold,
\* and two reads of the same candidate yield the same set, whatever was read
\* in between.
C20_ElementsOwnThresholdAndStable ==
    /\ \A i \in DOMAIN log :
         log[i].elements =
             { e \in Range(SplitFrom(log[i].candidate.name, 1, <<>>)) :
                 Len(e) >= log[i].candidate.length_threshold }
    /\ \A i, j \in DOMAIN log :
         log[i].candidate = log[j].candidate => log[i].elements = log[j].elements

\* C21 as claimed: the ratio of a Candidate without elements is never
\* computed: no ranking of a stored Action, rule-forced Candidates included,
\* divides by the number of elements when there are none, so no run ends
\* with ZeroDivisionError.
C21_RatioNeverOfNoElements ==
    ~(pc = "raised" /\ exc = "ZeroDivisionError")

\* The execution ran: automatic mode, or 'y' at the final confirmation.
Executed == pc \in {"cleanup", "done"} /\ (~interactive \/ choice = "y")

\* C22: when the execution has run and no move raised, there is exactly one
\* move for every decision of the queue and no other, from its source path to
\* root/name of its Candidate; where that is a directory the file is now in
\* it under its own name, and no longer at its source path.
C22_EveryDecisionMovedOnce ==
    Executed =>
        /\ Len(moves) = Len(queue)
        /\ \A k \in DOMAIN queue :
             LET src == SourcePath(queue[k].action)
                 dst == Join(queue[k].candidate.root, queue[k].candidate.name)
                 done == { i \in DOMAIN moves : moves[i].src = src }
             IN  /\ Cardinality(done) = 1
                 /\ \A i \in done : moves[i].dst = dst /\ moves[i].ok
                 /\ dst \in dirs0 =>
                      /\ src \notin files
                      /\ Join(dst, Basename(src)) \in files

\* An interactive run has moved two decisions for the same Candidate, one
\* group of two, after 'y' at the confirmation.
C22_Witness ==
    /\ pc = "done" /\ interactive /\ choice = "y"
    /\ Len(queue) = 2 /\ Len(moves) = 2
    /\ queue[1].candidate = queue[2].candidate
    /\ queue[1].candidate.score # 9999

\* C23 as claimed: when run() has returned, cleanup has tried the removal of
\* the parent directory of every queued source that is not directly in its
\* source root, under the source root of that source.
C23_CleanupUnderOwnRoot ==
    pc = "done" =>
        \A i \in DOMAIN queue :
            LET action == actions[queue[i].action]
            IN  Dirname(action.source) # <<>> =>
                    [root |-> action.root, parent |-> Dirname(action.source)]
                        \in CleanupAttempts(ParentGroups(queue))

\* C24 as claimed: no Candidate stored for an Action, and so no queued
\* decision, is the directory the source file is in already.
C24_NeverOwnDirectory ==
    /\ \A key \in DOMAIN actions : \A c \in actions[key].candidates :
           Join(c.root, c.name) # Dirname(SourcePath(key))
    /\ \A i \in DOMAIN queue :
           Join(queue[i].candidate.root, queue[i].candidate.name)
               # Dirname(SourcePath(queue[i].action))

\* The actions still to visit are distinct, and none is the one in hand.
VisitOnce ==
    /\ \A i, j \in DOMAIN todo : i # j => todo[i] # todo[j]
    /\ \A i \in DOMAIN todo : todo[i] # cur

\* C25: with recognized answers given sooner or later, a resolution pass
\* ends: choose_actions returns, or the run is quit or raises. Within the
\* pass the Actions are visited one after the other, each once; the
\* Candidates of the Action in hand are offered in one pass over its ranking,
\* each at most once; and in ACCEPT_ALL or SKIP_ALL mode a turn of
\* enqueue_action reads nothing and ends the offer.
C25_ResolutionTerminates ==
    /\ (pc = "choose") ~> (Chosen \/ pc \in {"exited", "raised"})
    /\ [](pc = "choose" => VisitOnce)
    /\ [][pc = "choose" =>
            /\ todo' # todo =>
                 /\ offered = <<>>
                 /\ todo' = Tail(todo) /\ cur' = Head(todo)
                 /\ Len(offered') = Cardinality(actions[cur'].candidates)
                 /\ Range(offered') = actions[cur'].candidates
            /\ (offered # <<>> /\ offered' # offered) =>
                 /\ offered' \in {Tail(offered), <<>>}
                 /\ cur' = cur /\ todo' = todo
            /\ (offered # <<>> /\ action_for_all # None) =>
                 /\ line' = NoInput
                 /\ offered' = <<>>]_vars

\* An interactive pass has ended after an unknown answer, a 'no' and a
\* 'skip all' were given on the way, with another Action visited after that.
C25_Witness ==
    /\ Chosen /\ interactive
    /\ action_for_all = "skip"
    /\ line = NoInput
    /\ Cardinality(DOMAIN actions) >= 2
    /\ \E key \in DOMAIN actions : Cardinality(actions[key].candidates) >= 2

====
